---------------------------- MODULE Spec2Model ----------------------------
(***************************************************************************)
(* A model of the portfolio page generators of aleemont1.github.io:        *)
(*   update_index.py             the script that splices project cards     *)
(*                               into index.html (get_projects,            *)
(*                               update_html, __main__);                   *)
(*   src/portfolio_generator.py  the class PortfolioGenerator (fetch_repos,*)
(*                               _generate_card_html, render) and main;    *)
(*   tests/test_generator.py     the inputs and expectations of the tests. *)
(* Text is modelled by TLA+ strings, read as sequences of characters with  *)
(* Len, SubSeq and \o.  Positions are 0-based as in Python: Slice(s, a, b) *)
(* is s[a:b].                                                              *)
(***************************************************************************)
EXTENDS Integers, Sequences, FiniteSets, TLC

VARIABLES
    prog,           \* the entry point that is being run
    pc,             \* the position inside it
    env,            \* the environment variables (<<>> is unset, <<v>> is set to v)
    index_html,     \* the file index.html: [exists, data]
    template_html,  \* the file template.html: [exists, data]
    api,            \* what the GitHub API (or the test's mock of it) serves
    requests,       \* the page numbers fetch_repos has requested, in order
    username,       \* get_projects' username / PortfolioGenerator.username
    repos,          \* fetch_repos' repos
    page,           \* fetch_repos' page
    cards,          \* get_projects' cards, then update_html's argument
    content,        \* update_html's content
    new_content,    \* update_html's new_content
    template,       \* main's template / render's template_content
    final_html,     \* render's return value (<<>> while there is none)
    exit_status,    \* the process' exit status (-1 while it runs)
    raised,         \* the exception that left the entry point unhandled ("" for none)
    log,            \* the messages printed or logged, in order
    trace,          \* the steps update_html has taken in the current call
    writes,         \* how often index.html has been written in the current run
    calls,          \* how many calls of update_html have started
    file0,          \* index.html as it was on disk when the current run started
    written         \* index.html as the completed calls of update_html left it

vars == <<prog, pc, env, index_html, template_html, api, requests, username,
          repos, page, cards, content, new_content, template, final_html,
          exit_status, raised, log, trace, writes, calls, file0, written>>

----------------------------------------------------------------------------
(* Python's str and list operations, as far as the program uses them.      *)

\* s[a:b] for 0 <= a <= b <= len(s)
Slice(s, a, b) == SubSeq(s, a + 1, b)

\* s[p] as a one-character string
CharAt(s, p) == SubSeq(s, p + 1, p + 1)

\* s.startswith(sub, p)
StartsWithAt(s, sub, p) ==
    /\ p + Len(sub) <= Len(s)
    /\ Slice(s, p, p + Len(sub)) = sub

\* sub in s
Contains(s, sub) == \E p \in 0..Len(s) : StartsWithAt(s, sub, p)

\* s.find(sub, p): the first occurrence at or after p, or -1
Find(s, sub, p) ==
    IF \E q \in p..Len(s) : StartsWithAt(s, sub, q)
    THEN CHOOSE q \in p..Len(s) :
             /\ StartsWithAt(s, sub, q)
             /\ \A r \in p..(q - 1) : ~StartsWithAt(s, sub, r)
    ELSE -1

RECURSIVE Join(_, _)
\* sep.join(parts)
Join(parts, sep) ==
    IF parts = <<>> THEN ""
    ELSE IF Len(parts) = 1 THEN parts[1]
    ELSE parts[1] \o sep \o Join(Tail(parts), sep)

ASCII_LOWERCASE == "abcdefghijklmnopqrstuvwxyz"
ASCII_UPPERCASE == "ABCDEFGHIJKLMNOPQRSTUVWXYZ"
DIGITS == "0123456789"

IsLower(c) == Len(c) = 1 /\ Contains(ASCII_LOWERCASE, c)
IsUpper(c) == Len(c) = 1 /\ Contains(ASCII_UPPERCASE, c)
IsLetter(c) == IsLower(c) \/ IsUpper(c)
IsDigit(c) == Len(c) = 1 /\ Contains(DIGITS, c)

LowerChar(c) ==
    IF IsUpper(c) THEN CharAt(ASCII_LOWERCASE, Find(ASCII_UPPERCASE, c, 0)) ELSE c
UpperChar(c) ==
    IF IsLower(c) THEN CharAt(ASCII_UPPERCASE, Find(ASCII_LOWERCASE, c, 0)) ELSE c

RECURSIVE Lower(_)
\* s.lower()
Lower(s) == IF s = "" THEN "" ELSE LowerChar(Head(s)) \o Lower(Tail(s))

RECURSIVE TitleFrom(_, _)
\* s.title(), prevCased telling whether the character before s was a letter
TitleFrom(s, prevCased) ==
    IF s = "" THEN ""
    ELSE LET c == Head(s)
         IN  (IF prevCased THEN LowerChar(c) ELSE UpperChar(c))
                 \o TitleFrom(Tail(s), IsLetter(c))
Title(s) == TitleFrom(s, FALSE)

RECURSIVE Replace(_, _, _)
\* s.replace(old, new) for a non-empty old
Replace(s, old, new) ==
    LET p == Find(s, old, 0)
    IN  IF p = -1 THEN s
        ELSE Slice(s, 0, p) \o new
             \o Replace(Slice(s, p + Len(old), Len(s)), old, new)

\* s.split(sep)[0]
SplitFirst(s, sep) ==
    LET p == Find(s, sep, 0) IN IF p = -1 THEN s ELSE Slice(s, 0, p)

\* the truth value of an optional string: None and "" are false
Truthy(opt) == opt # <<>> /\ opt[1] # ""

\* d.get(key) of a bool-valued key, as a truth value: a missing key is None
GetFlag(d, key) == key \in DOMAIN d /\ d[key]

\* opt or default
OrElse(opt, default) == IF Truthy(opt) THEN opt[1] ELSE default

----------------------------------------------------------------------------
(* update_index.py                                                         *)

\* update_index.py:7-52
DEFAULT_TEMPLATE ==
       "<!DOCTYPE html>\n"
    \o "<html lang=\"en\">\n"
    \o "<head>\n"
    \o "    <meta charset=\"UTF-8\">\n"
    \o "    <meta name=\"viewport\" content=\"width=device-width, initial-scale=1.0\">\n"
    \o "    <title>Alessandro Monticelli - Portfolio</title>\n"
    \o "    <style>\n"
    \o "        :root { --bg: #0d1117; --card-bg: #161b22; --text: #c9d1d9; --accent: #58a6ff; --border: #30363d; }\n"
    \o "        body { font-family: -apple-system, BlinkMacSystemFont, \"Segoe UI\", Helvetica, Arial, sans-serif; background: var(--bg); color: var(--text); padding: 40px 20px; margin: 0; line-height: 1.6; }\n"
    \o "        .container { max-width: 1000px; margin: 0 auto; }\n"
    \o "        .header { text-align: center; margin-bottom: 50px; }\n"
    \o "        .header h1 { margin-bottom: 10px; color: var(--accent); }\n"
    \o "        .header p { color: #8b949e; font-style: italic; }\n"
    \o "        section { margin-bottom: 60px; }\n"
    \o "        h2 { border-bottom: 1px solid var(--border); padding-bottom: 10px; margin-bottom: 30px; text-align: center; color: #fff; }\n"
    \o "        .stats-grid { display: flex; flex-direction: column; align-items: center; gap: 20px; }\n"
    \o "        .stats-grid img { width: 100%; max-width: 800px; height: auto; border-radius: 6px; }\n"
    \o "        .grid { display: grid; grid-template-columns: repeat(auto-fill, minmax(300px, 1fr)); gap: 20px; }\n"
    \o "        .card { background: var(--card-bg); border: 1px solid var(--border); border-radius: 6px; padding: 20px; text-decoration: none; color: inherit; transition: border-color 0.3s, transform 0.2s; display: flex; flex-direction: column; }\n"
    \o "        .card:hover { border-color: var(--accent); transform: translateY(-2px); }\n"
    \o "        .card h3 { margin: 0 0 10px 0; color: var(--accent); }\n"
    \o "        .card p { font-size: 0.9em; color: #8b949e; margin-bottom: 15px; flex-grow: 1; }\n"
    \o "        .tag { font-size: 0.8em; background: #21262d; padding: 4px 8px; border-radius: 12px; border: 1px solid var(--border); align-self: flex-start; color: var(--accent); }\n"
    \o "    </style>\n"
    \o "</head>\n"
    \o "<body>\n"
    \o "    <div class=\"container\">\n"
    \o "        <div class=\"header\">\n"
    \o "            <h1>Alessandro Monticelli</h1>\n"
    \o "            <p>Embedded Software Engineer | Computer Engineering MSc</p>\n"
    \o "        </div>\n"
    \o "        <section>\n"
    \o "            <h2>GitHub Activity & Stats</h2>\n"
    \o "            <div class=\"stats-grid\">\n"
    \o "                <img src=\"https://raw.githubusercontent.com/aleemont1/aleemont1/main/images/contribs.svg\" alt=\"GitHub Contributions\" />\n"
    \o "                <img src=\"https://raw.githubusercontent.com/aleemont1/aleemont1/main/images/userstats.svg\" alt=\"GitHub Statistics\" />\n"
    \o "            </div>\n"
    \o "        </section>\n"
    \o "        <section>\n"
    \o "            <h2>My Projects</h2>\n"
    \o "            <div class=\"grid\">\n"
    \o "</div>\n"
    \o "        </section>\n"
    \o "    </div>\n"
    \o "</body>\n"
    \o "</html>"

\* update_html's start_marker and end_marker (update_index.py:95-96)
start_marker == ""
end_marker == ""

\* repo["name"].replace("-", " ").title() and the f-strings of get_projects
ScriptCard(repo, user) ==
    LET name == Title(Replace(repo.name, "-", " "))
        link == "https://" \o user \o ".github.io/" \o repo.name \o "/"
        desc == OrElse(repo.description, "No description provided.")
        lang == OrElse(repo.language, "Project")
    IN  "\n            <a href=\"" \o link \o "\" class=\"card\">"
        \o "\n                <h3>" \o name \o "</h3>"
        \o "\n                <p>" \o desc \o "</p>"
        \o "\n                <span class=\"tag\">" \o lang \o "</span>"
        \o "\n            </a>"

\* the condition of get_projects' loop: has_pages, and not the user's own pages repository
ScriptQualifies(repo, user) ==
    /\ GetFlag(repo, "has_pages")
    /\ Lower(repo.name) # Lower(user \o ".github.io")

RECURSIVE ScriptCards(_, _)
\* get_projects' loop over response.json()
ScriptCards(response, user) ==
    IF response = <<>> THEN <<>>
    ELSE (IF ScriptQualifies(Head(response), user)
          THEN <<ScriptCard(Head(response), user)>> ELSE <<>>)
         \o ScriptCards(Tail(response), user)

RECURSIVE ExpandTemplate(_)
\* re's parsing of the replacement string (pattern.sub's repl): a backslash
\* escape is processed, an unknown escape of an ASCII letter is an error.  The
\* pattern has no groups, so a reference to group 1..9 is an error as well.
\* Covers the escapes \\, \n and \t, letters, 1..9 and non-alphanumerics.
ExpandTemplate(repl) ==
    LET p == Find(repl, "\\", 0)
    IN  IF p = -1 THEN [ok |-> TRUE, text |-> repl]
        ELSE IF p + 1 = Len(repl) THEN [ok |-> FALSE, text |-> ""]
        ELSE LET c    == CharAt(repl, p + 1)
                 rest == ExpandTemplate(Slice(repl, p + 2, Len(repl)))
                 this == IF c = "\\" THEN "\\"
                         ELSE IF c = "n" THEN "\n"
                         ELSE IF c = "t" THEN "\t"
                         ELSE "\\" \o c
             IN  IF (IsLetter(c) /\ c \notin {"n", "t"}) \/ (IsDigit(c) /\ c # "0")
                 THEN [ok |-> FALSE, text |-> ""]
                 ELSE [ok |-> rest.ok,
                       text |-> Slice(repl, 0, p) \o this \o rest.text]

\* the search of the compiled pattern re.escape(first) + ".*?" + re.escape(last)
\* (re.DOTALL) from position from: <<b, e>> for the match s[b:e], <<>> for none.
\* The span is lazy: it ends at the first occurrence of last.  must_advance is
\* the rule of re.sub after an empty match (Python 3.7 and later): a match that
\* starts at from must not be empty, so the lazy span takes one more character.
Search(s, first, last, from, must_advance) ==
    LET b == Find(s, first, from)
    IN  IF b = -1 THEN <<>>
        ELSE LET j0 == Find(s, last, b + Len(first))
                 j  == IF must_advance /\ b = from /\ j0 # -1 /\ j0 + Len(last) = b
                       THEN (IF j0 + 1 <= Len(s) THEN Find(s, last, j0 + 1) ELSE -1)
                       ELSE j0
             IN  IF j = -1 THEN <<>> ELSE <<b, j + Len(last)>>

RECURSIVE SubFrom(_, _, _, _, _, _)
\* pattern.sub's loop: s[i:] with every match from position i on replaced
SubFrom(s, first, last, text, i, must_advance) ==
    LET m == Search(s, first, last, i, must_advance)
    IN  IF m = <<>> THEN Slice(s, i, Len(s))
        ELSE Slice(s, i, m[1]) \o text
             \o SubFrom(s, first, last, text, m[2], m[2] = m[1])

\* pattern.sub(repl, s) with no count: every non-overlapping match is replaced
PatternSub(first, last, text, s) == SubFrom(s, first, last, text, 0, FALSE)

\* update_html's new_block
NewBlock(cs) == start_marker \o "\n" \o Join(cs, "\n") \o "\n" \o end_marker

\* update_html's check of the markers
MarkersMissing(s) == ~Contains(s, start_marker) \/ ~Contains(s, end_marker)

----------------------------------------------------------------------------
(* src/portfolio_generator.py                                              *)

\* d.get(key) of an optional key: None (<<>>) when the key is missing
GetOpt(d, key) == IF key \in DOMAIN d THEN d[key] ELSE <<>>

\* the filter without its test of "fork"
ClassQualifies_IgnoresFork(r) == GetFlag(r, "has_pages")

\* the filter of fetch_repos: r.get("has_pages") and not r.get("fork")
ClassQualifies(r) == GetFlag(r, "has_pages") /\ ~GetFlag(r, "fork")

\* fetch_repos' valid_repos of one page
ValidRepos(data) == SelectSeq(data, ClassQualifies)

RECURSIVE TagsHtml(_)
\* _generate_card_html's tags_html
TagsHtml(topics) ==
    IF topics = <<>> THEN ""
    ELSE "<span class=\"tag\">" \o Head(topics) \o "</span>" \o TagsHtml(Tail(topics))

\* PortfolioGenerator._generate_card_html
GenerateCardHtml(repo, user) ==
    LET name        == IF "name" \in DOMAIN repo THEN repo.name ELSE "Unknown"
        description == OrElse(GetOpt(repo, "description"), "No description provided.")
        topics      == IF "topics" \in DOMAIN repo THEN repo.topics ELSE <<>>
        tags_html   == TagsHtml(topics)
        pages_url   == "https://" \o user \o ".github.io/" \o name
    IN  "\n            <a href=\"" \o pages_url \o "\" target=\"_blank\" class=\"card\">"
        \o "\n                <h3>" \o name \o "</h3>"
        \o "\n                <p>" \o description \o "</p>"
        \o "\n                <div style=\"display: flex; flex-wrap: wrap; gap: 5px;\">"
        \o "\n                    " \o tags_html
        \o "\n                </div>"
        \o "\n            </a>"
        \o "\n        "

RECURSIVE CardList(_, _)
\* [self._generate_card_html(repo) for repo in repos]
CardList(rs, user) ==
    IF rs = <<>> THEN <<>>
    ELSE <<GenerateCardHtml(Head(rs), user)>> \o CardList(Tail(rs), user)

\* render's cards_html
CardsHtml(rs, user) == Join(CardList(rs, user), "\n")

\* the position of the next brace of s at or after p, or -1
NextBrace(s, p) ==
    LET a == Find(s, "{", p)
        b == Find(s, "}", p)
    IN  IF a = -1 THEN b ELSE IF b = -1 THEN a ELSE IF a < b THEN a ELSE b

RECURSIVE Format(_, _)
\* str.format(**kwargs) with no positional arguments, read left to right as
\* Python reads it: "{{" and "}}" are braces, "{name}" is kwargs[name], and the
\* first error met ends the call: a lone brace or a brace inside a field is a
\* ValueError, an empty or numeric field an IndexError (there are no positional
\* arguments), an unknown name a KeyError.  Covers fields that hold a name or
\* a number only (no conversion, format spec, attribute or index).
Format(s, kwargs) ==
    LET p == NextBrace(s, 0)
    IN  IF p = -1 THEN [status |-> "ok", text |-> s]
        ELSE IF p + 1 < Len(s) /\ CharAt(s, p + 1) = CharAt(s, p)
        THEN LET rest == Format(Slice(s, p + 2, Len(s)), kwargs)
             IN  [status |-> rest.status,
                  text |-> Slice(s, 0, p + 1) \o rest.text]
        ELSE IF CharAt(s, p) = "}" THEN [status |-> "ValueError", text |-> ""]
        ELSE LET q == NextBrace(s, p + 1)
             IN  IF q = -1 \/ CharAt(s, q) = "{"
                 THEN [status |-> "ValueError", text |-> ""]
                 ELSE LET field == Slice(s, p + 1, q)
                          rest  == Format(Slice(s, q + 1, Len(s)), kwargs)
                      IN  IF field = "" \/ \A i \in 0..(Len(field) - 1) :
                                              IsDigit(CharAt(field, i))
                          THEN [status |-> "IndexError", text |-> ""]
                          ELSE IF field \notin DOMAIN kwargs
                          THEN [status |-> "KeyError", text |-> ""]
                          ELSE [status |-> rest.status,
                                text |-> Slice(s, 0, p) \o kwargs[field] \o rest.text]

\* render's template_content.format(USERNAME=..., projects_grid=...)
RenderFormat(template_content, rs, user) ==
    Format(template_content,
           [USERNAME |-> user, projects_grid |-> CardsHtml(rs, user)])

\* whether the API's request for page p fails (a network or HTTP-status error)
RequestFails(a, p) == a.fail_at = p

\* response.json() of the request for page p: the test's mock answers every
\* request with the same page, GitHub with its p-th page and with an empty
\* page past the last
ResponseJson(a, p) ==
    IF a.kind = "mock" THEN a.pages[1]
    ELSE IF p <= Len(a.pages) THEN a.pages[p] ELSE <<>>

----------------------------------------------------------------------------
(* The inputs: environment, files, API answers, arguments of the tests.    *)

\* the most pages a GitHub answer holds before its empty page
MaxPages == 2
\* the most cards of a card list handed to update_html directly
MaxCards == 2

\* repository records as the GitHub API serves them
DemoSite ==
    [name |-> "demo-site", has_pages |-> TRUE, fork |-> FALSE,
     description |-> <<>>, language |-> <<>>, topics |-> <<>>]
Blog ==
    [name |-> "my-blog", has_pages |-> TRUE, fork |-> FALSE,
     description |-> <<"Notes & posts">>, language |-> <<"HTML">>,
     topics |-> <<"blog", "web">>]
Forked ==
    [name |-> "dotfiles", has_pages |-> TRUE, fork |-> TRUE,
     description |-> <<"">>, language |-> <<"Shell">>, topics |-> <<"cli">>]
NoPages ==
    [name |-> "notes", has_pages |-> FALSE, fork |-> FALSE,
     description |-> <<"Private notes">>, language |-> <<>>, topics |-> <<>>]
OwnPages ==
    [name |-> "Al.GitHub.io", has_pages |-> TRUE, fork |-> FALSE,
     description |-> <<"Home page">>, language |-> <<"HTML">>, topics |-> <<>>]

\* tests/test_generator.py:34-40, the record of the mocked response
RepoWithPages ==
    [name |-> "repo-with-pages", has_pages |-> TRUE,
     description |-> <<"A test repo">>, topics |-> <<"python", "web">>,
     html_url |-> "https://github.com/testuser/repo-with-pages"]
\* tests/test_generator.py:49-54
MyProject ==
    [name |-> "MyProject", description |-> <<"A cool project">>,
     html_url |-> "https://github.com/user/MyProject", topics |-> <<"ai", "ml">>]
\* tests/test_generator.py:61-66
Demo ==
    [name |-> "Demo", description |-> <<"Desc">>, html_url |-> "http://url",
     topics |-> <<>>]

\* tests/test_generator.py:15
TestUsername == "aleemont1"
\* tests/test_generator.py:72, the user name test_render_full_page looks for
TestExpectedUsername == "testuser"

\* tests/test_generator.py:18-27
SampleTemplate ==
       "\n"
    \o "        <html>\n"
    \o "            <body>\n"
    \o "                <h1>{USERNAME}</h1>\n"
    \o "                <div class=\"grid\">\n"
    \o "{projects_grid}\n"
    \o "                </div>\n"
    \o "            </body>\n"
    \o "        </html>\n"
    \o "        "

\* the pages an API answer is made of
PAGES ==
    {<<>>, <<DemoSite>>, <<Forked, OwnPages, Blog>>, <<Blog, NoPages, DemoSite>>}

\* the sequences of at most n elements of S
SeqsUpTo(S, n) == UNION {[1..k -> S] : k \in 0..n}

\* GitHub: some pages, then empty pages; request number fail_at fails (0: none)
GITHUB_APIS ==
    {[kind |-> "github", pages |-> ps, fail_at |-> f] :
        ps \in SeqsUpTo(PAGES, MaxPages), f \in 0..(MaxPages + 1)}

\* tests/test_generator.py:31-42: mock_get.return_value answers every request
\* with the same response
MOCK_API == [kind |-> "mock", pages |-> <<<<RepoWithPages>>>>, fail_at |-> 0]

\* the contents of template.html
TEMPLATES ==
    {SampleTemplate,
     "<h1>{USERNAME}</h1>",
     "<div>{projects_grid}</div>",
     "<p>static</p>",
     "{{USERNAME}} is {USERNAME}: {projects_grid}",
     "{USERNAME}{projects_grid}{title}",
     "{USERNAME}{}{projects_grid}",
     "{0}{USERNAME}{projects_grid}",
     "{USERNAME}{projects_grid}{",
     "}{USERNAME}{projects_grid}"}

Absent == [exists |-> FALSE, data |-> ""]
File(text) == [exists |-> TRUE, data |-> text]

TEMPLATE_FILES == {Absent} \cup {File(t) : t \in TEMPLATES}

\* index.html before a run
INDEX_FILES == {Absent, File(""), File("ab"), File("<div>\n</div>")}

\* the cards of the card lists handed to update_html directly
CARDS == {"c", "<a>", "\\d", "\\\\"}
CARD_LISTS == SeqsUpTo(CARDS, MaxCards)

\* the repository lists handed to render directly
REPO_LISTS == {<<>>, <<Demo>>, <<DemoSite>>, <<RepoWithPages, MyProject>>}

Unset == <<>>
NoEnv ==
    [GH_TOKEN |-> Unset, GITHUB_REPOSITORY |-> Unset,
     GITHUB_ACTOR |-> Unset, GITHUB_TOKEN |-> Unset]
NoApi == [kind |-> "github", pages |-> <<>>, fail_at |-> 0]

----------------------------------------------------------------------------
(* The state after the process has started (or the test has set up).       *)

\* every variable that an entry point does not get from its caller
Fresh ==
    /\ requests = <<>>
    /\ page = 1
    /\ content = ""
    /\ new_content = ""
    /\ final_html = <<>>
    /\ exit_status = -1
    /\ raised = ""
    /\ log = <<>>
    /\ trace = <<>>
    /\ writes = 0
    /\ written = <<>>
    /\ file0 = index_html

\* python update_index.py
InitUpdateIndex ==
    /\ prog = "update_index" /\ pc = "main"
    /\ env \in {[NoEnv EXCEPT !.GH_TOKEN = t, !.GITHUB_REPOSITORY = r] :
                  t \in {Unset, <<"ghp_t">>},
                  r \in {Unset, <<"">>, <<"al/al.github.io">>}}
    /\ index_html \in INDEX_FILES
    /\ template_html = Absent
    /\ api \in {[kind |-> "github", pages |-> <<p>>, fail_at |-> f] :
                  p \in PAGES, f \in {0, 1}}
    /\ username = "" /\ cards = <<>> /\ template = "" /\ calls = 0
    /\ repos = <<>>
    /\ Fresh

\* update_html(cards), called directly
InitUpdateHtml ==
    /\ prog = "update_html" /\ pc = "update_html"
    /\ env = NoEnv
    /\ index_html \in INDEX_FILES
    /\ template_html = Absent
    /\ api = NoApi
    /\ username = "" /\ cards \in CARD_LISTS /\ template = "" /\ calls = 1
    /\ repos = <<>>
    /\ Fresh

\* python src/portfolio_generator.py
InitMain ==
    /\ prog = "portfolio_generator" /\ pc = "main"
    /\ env \in {[NoEnv EXCEPT !.GITHUB_ACTOR = a] : a \in {Unset, <<"">>, <<"al">>}}
    /\ index_html \in {Absent, File("<html>old</html>")}
    /\ template_html \in TEMPLATE_FILES
    /\ api \in GITHUB_APIS
    /\ username = "" /\ cards = <<>> /\ template = "" /\ calls = 0
    /\ repos = <<>>
    /\ Fresh

\* TestPortfolioGenerator: setUp, then generator.fetch_repos()
InitFetchRepos ==
    /\ prog = "fetch_repos" /\ pc = "fetch_repos"
    /\ env = NoEnv
    /\ index_html = Absent
    /\ template_html = Absent
    /\ api \in GITHUB_APIS \cup {MOCK_API}
    /\ username = TestUsername /\ cards = <<>> /\ template = "" /\ calls = 0
    /\ repos = <<>>
    /\ Fresh

\* TestPortfolioGenerator: setUp, then generator.render(template_content, repos)
InitRender ==
    /\ prog = "render" /\ pc = "render"
    /\ env = NoEnv
    /\ index_html = Absent
    /\ template_html = Absent
    /\ api = NoApi
    /\ username = TestUsername /\ cards = <<>> /\ template \in TEMPLATES
    /\ calls = 0
    /\ Fresh
    /\ repos \in REPO_LISTS

Init ==
    \/ InitUpdateIndex
    \/ InitUpdateHtml
    \/ InitMain
    \/ InitFetchRepos
    \/ InitRender

----------------------------------------------------------------------------
(* update_index.py: __main__, get_projects, update_html                    *)

Exit(status) == pc' = "done" /\ exit_status' = status
Logged(message) == log' = Append(log, message)

\* update_index.py:118-127
main_update_index ==
    /\ prog = "update_index" /\ pc = "main"
    /\ IF Truthy(env.GH_TOKEN) /\ Truthy(env.GITHUB_REPOSITORY)
       THEN /\ username' = SplitFirst(env.GITHUB_REPOSITORY[1], "/")
            /\ pc' = "get_projects"
            /\ UNCHANGED <<log, exit_status>>
       ELSE /\ Logged("Missing environment variables.")
            /\ Exit(0)
            /\ UNCHANGED username
    /\ UNCHANGED <<prog, env, index_html, template_html, api, requests, repos,
                   page, cards, content, new_content, template, final_html,
                   raised, trace, writes, calls, file0, written>>

\* update_index.py:55-83, and the call of update_html(projects) that follows
get_projects ==
    /\ prog = "update_index" /\ pc = "get_projects"
    /\ requests' = Append(requests, 1)
    /\ IF RequestFails(api, 1)
       THEN /\ Logged("Error fetching repos")
            /\ cards' = <<>>
       ELSE /\ cards' = ScriptCards(ResponseJson(api, 1), username)
            /\ UNCHANGED log
    /\ pc' = "update_html"
    /\ calls' = calls + 1
    /\ UNCHANGED <<prog, env, index_html, template_html, api, username, repos,
                   page, content, new_content, template, final_html,
                   exit_status, raised, trace, writes, file0, written>>

\* update_index.py:87-93
update_html_read ==
    /\ prog \in {"update_index", "update_html"} /\ pc = "update_html"
    /\ IF index_html.exists
       THEN /\ content' = index_html.data
            /\ trace' = Append(trace, "read")
       ELSE /\ content' = ""
            /\ UNCHANGED trace
    /\ pc' = "check_markers"
    /\ UNCHANGED <<prog, env, index_html, template_html, api, requests,
                   username, repos, page, cards, new_content, template,
                   final_html, exit_status, raised, log, writes, calls, file0,
                   written>>

\* update_index.py:95-101
update_html_check ==
    /\ pc = "check_markers"
    /\ IF MarkersMissing(content)
       THEN /\ Logged("File corrupted or markers missing. Resetting to default template.")
            /\ content' = DEFAULT_TEMPLATE
            /\ trace' = Append(trace, "use-default")
       ELSE UNCHANGED <<log, content, trace>>
    /\ pc' = "sub"
    /\ UNCHANGED <<prog, env, index_html, template_html, api, requests,
                   username, repos, page, cards, new_content, template,
                   final_html, exit_status, raised, writes, calls, file0,
                   written>>

\* update_index.py:103-111; re.error leaves update_html and ends the process
update_html_sub ==
    /\ pc = "sub"
    /\ LET repl == ExpandTemplate(NewBlock(cards))
       IN  IF repl.ok
           THEN /\ new_content' = PatternSub(start_marker, end_marker, repl.text, content)
                /\ trace' = Append(trace, "splice")
                /\ pc' = "write"
                /\ UNCHANGED <<raised, exit_status>>
           ELSE /\ raised' = "re.error"
                /\ Exit(1)
                /\ UNCHANGED <<new_content, trace>>
    /\ UNCHANGED <<prog, env, index_html, template_html, api, requests,
                   username, repos, page, cards, content, template, final_html,
                   log, writes, calls, file0, written>>

\* update_index.py:113-115
update_html_write ==
    /\ pc = "write" /\ prog \in {"update_index", "update_html"}
    /\ index_html' = File(new_content)
    /\ writes' = writes + 1
    /\ written' = Append(written, new_content)
    /\ trace' = Append(trace, "write")
    /\ Logged("Index updated successfully.")
    /\ Exit(0)
    /\ UNCHANGED <<prog, env, template_html, api, requests, username, repos,
                   page, cards, content, new_content, template, final_html,
                   raised, calls, file0>>

\* update_html(cards) once more, with the same card list, on the file the first
\* call left
update_html_again ==
    /\ prog = "update_html" /\ pc = "done" /\ calls = 1 /\ raised = ""
    /\ pc' = "update_html"
    /\ calls' = calls + 1
    /\ content' = ""
    /\ new_content' = ""
    /\ trace' = <<>>
    /\ writes' = 0
    /\ exit_status' = -1
    /\ file0' = index_html
    /\ UNCHANGED <<prog, env, index_html, template_html, api, requests,
                   username, repos, page, cards, template, final_html, raised,
                   log, written>>

----------------------------------------------------------------------------
(* src/portfolio_generator.py: main, fetch_repos, render                   *)

\* portfolio_generator.py:114-131, up to the call of fetch_repos
main ==
    /\ prog = "portfolio_generator" /\ pc = "main"
    /\ IF ~Truthy(env.GITHUB_ACTOR)
       THEN /\ Logged("GITHUB_ACTOR environment variable not found.")
            /\ Exit(1)
            /\ UNCHANGED username
       ELSE /\ username' = env.GITHUB_ACTOR[1]
            /\ pc' = "fetch_repos"
            /\ UNCHANGED <<log, exit_status>>
    /\ UNCHANGED <<prog, env, index_html, template_html, api, requests, repos,
                   page, cards, content, new_content, template, final_html,
                   raised, trace, writes, calls, file0, written>>

\* fetch_repos with an error handler that returns the repositories fetched so
\* far instead of ending the process
fetch_repos_ReturnsPartial ==
    /\ pc = "fetch_repos"
    /\ Len(requests) <= MaxPages
    /\ requests' = Append(requests, page)
    /\ IF RequestFails(api, page)
       THEN /\ Logged("Error fetching repositories")
            /\ IF prog = "portfolio_generator"
               THEN pc' = "read_template" /\ UNCHANGED exit_status
               ELSE Exit(0)
            /\ UNCHANGED <<repos, page>>
       ELSE IF ResponseJson(api, page) = <<>>
       THEN /\ Logged("Found repositories with GitHub Pages enabled.")
            /\ IF prog = "portfolio_generator"
               THEN pc' = "read_template" /\ UNCHANGED exit_status
               ELSE Exit(0)
            /\ UNCHANGED <<repos, page>>
       ELSE /\ repos' = repos \o ValidRepos(ResponseJson(api, page))
            /\ page' = page + 1
            /\ UNCHANGED <<pc, log, exit_status>>
    /\ UNCHANGED <<prog, env, index_html, template_html, api, username, cards,
                   content, new_content, template, final_html, raised, trace,
                   writes, calls, file0, written>>

\* portfolio_generator.py:43-69, one turn of the loop: the request of page
\* `page`, then the exit on an error, the return on an empty page, or the next
\* page.  The guard bounds the requests the model follows.
fetch_repos ==
    /\ pc = "fetch_repos"
    /\ Len(requests) <= MaxPages
    /\ requests' = Append(requests, page)
    /\ IF RequestFails(api, page)
       THEN /\ Logged("Error fetching repositories")
            /\ Exit(1)
            /\ UNCHANGED <<repos, page>>
       ELSE IF ResponseJson(api, page) = <<>>
       THEN /\ Logged("Found repositories with GitHub Pages enabled.")
            /\ IF prog = "portfolio_generator"
               THEN pc' = "read_template" /\ UNCHANGED exit_status
               ELSE Exit(0)
            /\ UNCHANGED <<repos, page>>
       ELSE /\ repos' = repos \o ValidRepos(ResponseJson(api, page))
            /\ page' = page + 1
            /\ UNCHANGED <<pc, log, exit_status>>
    /\ UNCHANGED <<prog, env, index_html, template_html, api, username, cards,
                   content, new_content, template, final_html, raised, trace,
                   writes, calls, file0, written>>

\* portfolio_generator.py:133-135 and 144-146
main_read_template ==
    /\ pc = "read_template"
    /\ IF template_html.exists
       THEN /\ template' = template_html.data
            /\ pc' = "render"
            /\ UNCHANGED <<log, exit_status>>
       ELSE /\ Logged("Could not find template.html")
            /\ Exit(1)
            /\ UNCHANGED template
    /\ UNCHANGED <<prog, env, index_html, template_html, api, requests,
                   username, repos, page, cards, content, new_content,
                   final_html, raised, trace, writes, calls, file0, written>>

\* portfolio_generator.py:97-112; an exception other than KeyError leaves
\* render, and main, unhandled: the interpreter ends with status 1
render ==
    /\ pc = "render"
    /\ LET output == RenderFormat(template, repos, username)
       IN  IF output.status = "ok"
           THEN /\ final_html' = <<output.text>>
                /\ IF prog = "portfolio_generator"
                   THEN pc' = "write" /\ UNCHANGED exit_status
                   ELSE Exit(0)
                /\ UNCHANGED <<log, raised>>
           ELSE IF output.status = "KeyError"
           THEN /\ Logged("Template formatting error. Missing key")
                /\ Exit(1)
                /\ UNCHANGED <<final_html, raised>>
           ELSE /\ raised' = output.status
                /\ Exit(1)
                /\ UNCHANGED <<final_html, log>>
    /\ UNCHANGED <<prog, env, index_html, template_html, api, requests,
                   username, repos, page, cards, content, new_content,
                   template, trace, writes, calls, file0, written>>

\* portfolio_generator.py:139-142
main_write ==
    /\ prog = "portfolio_generator" /\ pc = "write"
    /\ index_html' = File(final_html[1])
    /\ writes' = writes + 1
    /\ Logged("Successfully generated index.html")
    /\ Exit(0)
    /\ UNCHANGED <<prog, env, template_html, api, requests, username, repos,
                   page, cards, content, new_content, template, final_html,
                   raised, trace, calls, file0, written>>

----------------------------------------------------------------------------

Next ==
    \/ main_update_index
    \/ get_projects
    \/ update_html_read
    \/ update_html_check
    \/ update_html_sub
    \/ update_html_write
    \/ update_html_again
    \/ main
    \/ fetch_repos
    \/ main_read_template
    \/ render
    \/ main_write

Spec == Init /\ [][Next]_vars

----------------------------------------------------------------------------
(* What the claims speak of.                                               *)

InLog(message) == \E i \in DOMAIN log : log[i] = message

\* the positions at which sub occurs in s
Occurrences(s, sub) == {p \in 0..Len(s) : StartsWithAt(s, sub, p)}

\* the number of times x occurs in the list xs
Count(xs, x) == Cardinality({i \in DOMAIN xs : xs[i] = x})

RECURSIVE Flatten(_)
\* the concatenation of a list of lists
Flatten(lists) == IF lists = <<>> THEN <<>> ELSE lists[1] \o Flatten(Tail(lists))

RECURSIVE PagesBeforeEmpty(_)
\* the pages of an answer up to its first empty page
PagesBeforeEmpty(ps) ==
    IF ps = <<>> \/ Head(ps) = <<>> THEN <<>>
    ELSE <<Head(ps)>> \o PagesBeforeEmpty(Tail(ps))

\* the whole answer of GitHub: its pages, concatenated
Served(a) == Flatten(PagesBeforeEmpty(a.pages))

\* the number of the first empty page of GitHub's answer
FirstEmptyPage(a) == Len(PagesBeforeEmpty(a.pages)) + 1

\* a request of fetch_repos fails: one of the pages up to the first empty one
FetchFails(a) == a.fail_at \in 1..FirstEmptyPage(a)

\* a call of update_html has ended without an exception
UpdateHtmlDone ==
    /\ prog \in {"update_index", "update_html"}
    /\ pc = "done" /\ calls >= 1 /\ raised = ""

\* the class flow's qualifying records: has_pages is true and fork is not
\* (a record without the key counts as not being one)
IsPagesNotFork(r) ==
    /\ "has_pages" \in DOMAIN r /\ r.has_pages = TRUE
    /\ ("fork" \in DOMAIN r => r.fork = FALSE)

\* the script flow's qualifying records: has_pages is true and the name is not
\* "<user>.github.io", whatever the case of its letters
IsPagesNotOwn(r, user) ==
    /\ "has_pages" \in DOMAIN r /\ r.has_pages = TRUE
    /\ Lower(r.name) # Lower(user) \o ".github.io"

\* the index in `input` of its k-th element that satisfies Q, 0 for none
KthIndex(input, Q(_), k) ==
    LET hits == {i \in DOMAIN input :
                    /\ Q(input[i])
                    /\ Cardinality({j \in 1..i : Q(input[j])}) = k}
    IN  IF hits = {} THEN 0 ELSE CHOOSE i \in hits : TRUE

\* C3: for an API response of N repositories of which exactly K qualify, the
\* filtered result has exactly K entries in the response's order.  Class flow
\* (fetch_repos has returned): repos holds, for k = 1..K, the k-th record of the
\* concatenated pages with has_pages true and fork false.  Script flow
\* (get_projects has fetched): cards holds, for k = 1..K, one card, and the
\* k-th card links to the k-th record with has_pages true whose name differs
\* from "<username>.github.io" regardless of case.
C3_FilterKeepsCountAndOrder ==
    /\ (/\ prog \in {"fetch_repos", "portfolio_generator"}
        /\ InLog("Found repositories with GitHub Pages enabled."))
       => LET input == Served(api)
              K == Cardinality({i \in DOMAIN input : IsPagesNotFork(input[i])})
          IN  /\ Len(repos) = K
              /\ \A k \in 1..K :
                    /\ KthIndex(input, IsPagesNotFork, k) # 0
                    /\ repos[k] = input[KthIndex(input, IsPagesNotFork, k)]
    /\ (/\ prog = "update_index"
        /\ requests = <<1>>
        /\ ~InLog("Error fetching repos"))
       => LET input == api.pages[1]
              NotOwn(r) == IsPagesNotOwn(r, username)
              K == Cardinality({i \in DOMAIN input : NotOwn(input[i])})
          IN  /\ Len(cards) = K
              /\ \A k \in 1..K :
                    /\ KthIndex(input, NotOwn, k) # 0
                    /\ Contains(cards[k],
                                "href=\"https://" \o username \o ".github.io/"
                                    \o input[KthIndex(input, NotOwn, k)].name \o "/\"")

\* C3's case: fetch_repos has returned from two non-empty pages that hold
\* forks and records without pages among the qualifying ones
C3_Witness ==
    /\ prog = "fetch_repos"
    /\ InLog("Found repositories with GitHub Pages enabled.")
    /\ Len(requests) = 3
    /\ Len(repos) >= 3
    /\ Len(Served(api)) > Len(repos) + 1

\* C6: in the class flow main ends with status 1 and index.html unwritten when
\* GITHUB_ACTOR is missing, when a page request fails (also after earlier pages
\* succeeded) or when template.html is missing; index.html is written at most
\* once, and it is written, and the status is 0, only when the fetch, the read
\* of the template and render all succeeded, which then does happen.
C6_MainExitAndWrite ==
    prog = "portfolio_generator" =>
        LET actor_missing    == ~Truthy(env.GITHUB_ACTOR)
            fetch_fails      == FetchFails(api)
            template_missing == ~template_html.exists
            failure          == actor_missing \/ fetch_fails \/ template_missing
        IN  /\ writes <= 1
            /\ writes = 0 => index_html = file0
            /\ failure => writes = 0 /\ exit_status # 0
            /\ (failure /\ pc = "done") => exit_status = 1
            /\ (writes = 1 \/ exit_status = 0) =>
                  /\ ~failure
                  /\ final_html # <<>>
                  /\ index_html = File(final_html[1])
                  /\ exit_status = 0 /\ pc = "done" /\ raised = ""
                  /\ InLog("Found repositories with GitHub Pages enabled.")
                  /\ template = template_html.data
            /\ (pc = "done" /\ ~failure) =>
                  \/ exit_status = 0 /\ writes = 1
                  \/ exit_status = 1 /\ final_html = <<>>
                        /\ (raised # "" \/ InLog("Template formatting error. Missing key"))

\* C6's case: the second page request failed after the first page had
\* succeeded, and main has ended
C6_Witness ==
    /\ prog = "portfolio_generator" /\ pc = "done"
    /\ api.fail_at = 2 /\ requests = <<1, 2>>
    /\ repos # <<>>
    /\ template_html.exists
    /\ exit_status = 1 /\ writes = 0

\* C1: marker-region replacement is idempotent: whatever index.html held and
\* whatever the card list, a second update_html(cards) leaves index.html
\* byte-identical to what the first update_html(cards) left.
C1_SecondCallChangesNothing ==
    (prog = "update_html" /\ Len(written) = 2) => written[2] = written[1]

\* C2: whatever index.html held (absent, without both markers, with both), the
\* document update_html writes holds exactly one start marker and exactly one
\* end marker, the start marker first, and between them a newline, the cards
\* joined by newlines, and a newline.
C2_OneMarkerPairAroundCards ==
    (UpdateHtmlDone /\ writes = 1) =>
        \E p \in 0..Len(index_html.data), q \in 0..Len(index_html.data) :
            /\ Occurrences(index_html.data, start_marker) = {p}
            /\ Occurrences(index_html.data, end_marker) = {q}
            /\ p + Len(start_marker) <= q
            /\ Slice(index_html.data, p + Len(start_marker), q)
                  = "\n" \o Join(cards, "\n") \o "\n"

\* C4: update_html replaces only the first span from a start marker through
\* the next end marker by start marker, newline, joined cards, newline, end
\* marker; every character outside that span, a later marker pair included, is
\* in the written file as it was.
C4_OnlyFirstSpanReplaced ==
    (UpdateHtmlDone /\ writes = 1) =>
        LET b == Find(content, start_marker, 0)
            e == IF b = -1 THEN -1
                 ELSE Find(content, end_marker, b + Len(start_marker))
        IN  (b # -1 /\ e # -1) =>
                index_html.data
                    = Slice(content, 0, b)
                      \o start_marker \o "\n" \o Join(cards, "\n") \o "\n" \o end_marker
                      \o Slice(content, e + Len(end_marker), Len(content))

\* C5: in the script flow a failed request aborts the run: index.html is not
\* written and keeps the content it had before the run.
C5_FetchFailureLeavesFile ==
    (prog = "update_index" /\ InLog("Error fetching repos")) =>
        writes = 0 /\ index_html = file0

\* fetch_repos is running or has run
InFetchRepos == prog \in {"fetch_repos", "portfolio_generator"}

\* fetch_repos asks for pages 1, 2, 3, ... in this order, each once
RequestsInOrder == InFetchRepos => \A i \in DOMAIN requests : requests[i] = i

\* fetch_repos asks for no page after an empty one, and has returned then
StopsAtFirstEmptyPage ==
    InFetchRepos =>
        \A i \in DOMAIN requests :
            (~RequestFails(api, i) /\ ResponseJson(api, i) = <<>>) =>
                /\ i = Len(requests)
                /\ InLog("Found repositories with GitHub Pages enabled.")

\* fetch_repos' repos holds no repository more often than the API's answer does
NoRepoTwice ==
    InFetchRepos =>
        \A i \in DOMAIN repos :
            Count(repos, repos[i])
                <= Count(Flatten(IF api.kind = "mock" THEN api.pages
                                 ELSE PagesBeforeEmpty(api.pages)), repos[i])

\* C7: fetch_repos requests pages 1, 2, 3, ... in increasing order, one request
\* per page, stops at the first empty page and returns; this also holds
\* against the test's mocked response of a single page of repositories, where
\* each repository served is in the result at most once.
C7_PagesInOrderEachRepoOnce ==
    /\ RequestsInOrder
    /\ StopsAtFirstEmptyPage
    /\ NoRepoTwice

\* the template holds both placeholders and no other brace
HoldsOnlyThePlaceholders(t) ==
    /\ Contains(t, "{USERNAME}")
    /\ Contains(t, "{projects_grid}")
    /\ LET rest == Replace(Replace(t, "{USERNAME}", ""), "{projects_grid}", "")
       IN  ~Contains(rest, "{") /\ ~Contains(rest, "}")

\* what C8 says a card of the output shows of its repository
ShowsRepo(output, r, user) ==
    /\ Contains(output, r.name)
    /\ \A i \in DOMAIN r.topics : Contains(output, r.topics[i])
    /\ Contains(output, "https://" \o user \o ".github.io/" \o r.name)
    /\ IF "description" \in DOMAIN r /\ r.description # <<>>
       THEN Contains(output, r.description[1])
       ELSE Contains(output, "No description provided.")

\* C8 without the test's expectation: the output is the template with the
\* placeholders replaced, and shows every repository
RenderFillsTemplate ==
    (prog = "render" /\ pc = "done" /\ HoldsOnlyThePlaceholders(template)) =>
        /\ final_html # <<>>
        /\ final_html[1]
              = Replace(Replace(template, "{USERNAME}", username),
                        "{projects_grid}", CardsHtml(repos, username))
        /\ \A i \in DOMAIN repos : ShowsRepo(final_html[1], repos[i], username)

\* C8: render(template, repos) with a template that holds {USERNAME} and
\* {projects_grid} returns the template with {USERNAME} replaced by the user
\* name and {projects_grid} by the cards of repos in order; the output shows
\* each repository's name, topics, link and description (or "No description
\* provided."), and it contains the user name the test expects.
C8_RenderOutput ==
    /\ RenderFillsTemplate
    /\ (prog = "render" /\ pc = "done" /\ HoldsOnlyThePlaceholders(template)) =>
          (final_html # <<>> /\ Contains(final_html[1], TestExpectedUsername))

\* the template fails to match the two placeholders: one is absent, or there is
\* another brace in it
FailsToMatch(t) ==
    \/ ~Contains(t, "{USERNAME}")
    \/ ~Contains(t, "{projects_grid}")
    \/ LET rest == Replace(Replace(t, "{USERNAME}", ""), "{projects_grid}", "")
       IN  Contains(rest, "{") \/ Contains(rest, "}")

\* C9: for every template that fails to match the two required placeholders
\* render reports the error and the process ends with a non-zero status;
\* render returns no output and raises no unhandled exception.
C9_BadTemplateIsReportedAndFatal ==
    (prog = "render" /\ pc = "done" /\ FailsToMatch(template)) =>
        /\ InLog("Template formatting error. Missing key")
        /\ exit_status # 0
        /\ final_html = <<>>
        /\ raised = ""

\* C10: every call of update_html reads the file (present) or takes the
\* default (missing), takes the default when the markers are absent, then
\* splices once and writes once: the file is read exactly once when it exists
\* and never otherwise, and on every path the replacement is applied once and
\* index.html written once, after it.
C10_ReadSpliceWriteOnce ==
    (prog \in {"update_index", "update_html"} /\ pc = "done" /\ calls >= 1) =>
        /\ trace \in {<<"read", "splice", "write">>,
                      <<"read", "use-default", "splice", "write">>,
                      <<"use-default", "splice", "write">>}
        /\ file0.exists <=> trace[1] = "read"
        /\ writes = 1

=============================================================================
